---------------------------- MODULE Spec2Model ----------------------------
(***************************************************************************)
(* Model of transcribe.py: the transcription pipeline (transcribe_video),  *)
(* its command-line runner (main, run_cli) and its Tk runner (launch_gui:  *)
(* worker thread, message queue, periodic process_queue).                  *)
(*                                                                         *)
(* Strings are sequences of tokens.  A token is one character ("SP" a      *)
(* blank, "NL" a newline, "DQ" a double quote, "SQ" a single quote, "/"    *)
(* the path separator), a run of letters ("v", "hello"), or a dot followed *)
(* by letters (".mp4", ".MOV").                                            *)
(***************************************************************************)
EXTENDS Integers, Sequences, FiniteSets, TLC

\* ------------------------------------------------------------------ bounds
\* Number of pipeline runs one process may start.
MaxRuns == 2

\* ------------------------------------------------------------ string model
Whitespace == {"SP", "NL"}
Quote1 == {"DQ"}
Quote2 == {"SQ"}
DotTokens == {".mp4", ".MP4", ".mov", ".MOV", ".avi", ".Avi", ".pdf", ".txt"}

\* str.lower() on one token
LowerTok(t) ==
    CASE t = ".MP4" -> ".mp4"
      [] t = ".MOV" -> ".mov"
      [] t = ".Avi" -> ".avi"
      [] OTHER -> t

\* str.lower()
Lower(s) == [i \in 1..Len(s) |-> LowerTok(s[i])]

\* str.lstrip(chars)
RECURSIVE LStrip(_, _)
LStrip(s, chars) ==
    IF s # <<>> /\ Head(s) \in chars THEN LStrip(Tail(s), chars) ELSE s

\* str.rstrip(chars)
RECURSIVE RStrip(_, _)
RStrip(s, chars) ==
    IF s # <<>> /\ s[Len(s)] \in chars
    THEN RStrip(SubSeq(s, 1, Len(s) - 1), chars)
    ELSE s

\* str.strip(chars); str.strip() is StripChars(s, Whitespace)
StripChars(s, chars) == RStrip(LStrip(s, chars), chars)

\* normalize_path: path.strip().strip('"').strip("'"), each strip applied to
\* the value the one before it returned
normalize_path(path) ==
    LET a == {StripChars(path, Whitespace)}
        b == {StripChars(x, Quote1) : x \in a}
        c == {StripChars(x, Quote2) : x \in b}
    IN  CHOOSE p \in c : TRUE

\* index of the last "/" of p, 0 when there is none
LastSep(p) ==
    LET idx == {i \in 1..Len(p) : p[i] = "/"}
    IN  IF idx = {} THEN 0 ELSE CHOOSE i \in idx : \A j \in idx : j <= i

\* os.path.basename
basename(p) == SubSeq(p, LastSep(p) + 1, Len(p))

\* os.path.dirname: the head up to the last separator, trailing separators
\* removed unless the head is made of separators only
dirname(p) ==
    LET head == SubSeq(p, 1, LastSep(p))
    IN  IF head # <<>> /\ \E i \in 1..Len(head) : head[i] # "/"
        THEN RStrip(head, {"/"})
        ELSE head

\* index at which os.path.splitext cuts p: the last dot of the base name,
\* provided something other than dots precedes it in the base name;
\* 0 when there is no extension
ExtIndex(p) ==
    LET first == LastSep(p) + 1
        dots == {i \in first..Len(p) : p[i] \in DotTokens}
        last == CHOOSE i \in dots : \A j \in dots : j <= i
    IN  IF dots = {} THEN 0
        ELSE IF last > first THEN last ELSE 0

\* os.path.splitext(p)[0] and [1]
splitext_root(p) == IF ExtIndex(p) = 0 THEN p ELSE SubSeq(p, 1, ExtIndex(p) - 1)
splitext_ext(p) == IF ExtIndex(p) = 0 THEN <<>> ELSE SubSeq(p, ExtIndex(p), Len(p))

\* os.path.join(a, b) for a relative b
path_join(a, b) ==
    IF a = <<>> \/ a[Len(a)] = "/" THEN a \o b ELSE a \o <<"/">> \o b

SUPPORTED_EXTS == {<<".mp4">>, <<".mov">>, <<".avi">>}

\* lines 49-51: the transcript path derived from the normalized video path
TxtPath(p) ==
    LET output_dir == IF dirname(p) = <<>> THEN <<".">> ELSE dirname(p)
        base_name == splitext_root(basename(p))
    IN  path_join(output_dir, base_name \o <<".txt">>)


\* lines 66-68: the text taken from a recognition result
RECURSIVE JoinLines(_)
\* line 68 without the strip of each segment text
RECURSIVE JoinLines_raw(_)
JoinLines_raw(segs) ==
    IF segs = <<>> THEN <<>>
    ELSE IF Len(segs) = 1 THEN segs[1]
    ELSE segs[1] \o <<"NL">> \o JoinLines_raw(Tail(segs))

JoinLines(segs) ==
    IF segs = <<>> THEN <<>>
    ELSE IF Len(segs) = 1 THEN StripChars(segs[1], Whitespace)
    ELSE StripChars(segs[1], Whitespace) \o <<"NL">> \o JoinLines(Tail(segs))

ResultText(result) ==
    LET text == StripChars(result.text, Whitespace)
    IN  IF text = <<>> /\ result.segments # <<>>
        THEN StripChars(JoinLines(result.segments), Whitespace)
        ELSE text

\* ------------------------------------------------------------ environment
\* regular files present on disk before the program starts
Files == { <<"/", "d", "/", "v", ".mp4">>,
           <<"v", ".MOV">>,
           <<"/", "d", "/", "n", ".pdf">> }

\* strings a user may pass on the command line or type into the path entry
RawPaths == { <<>>,
              <<"SP">>,
              <<"DQ", "DQ">>,
              <<"/", "d", "/", "v", ".mp4">>,
              <<"SP", "DQ", "v", ".MOV", "DQ">>,
              <<"/", "d", "/", "n", ".pdf">>,
              <<"x", ".mp4">>,
              <<"x", ".pdf">> }

\* strings a user may type into the path entry of the window
EntryTexts == { <<"SP">>,
                <<"SP", "DQ", "v", ".MOV", "DQ">>,
                <<"x", ".pdf">> }

\* what the file dialog may return: "" when cancelled, else an existing file
DialogChoices == { <<>>, <<"v", ".MOV">> }

GuiFlag == <<"--gui">>

\* sys.argv[1:]
Argvs == { <<>>, <<GuiFlag>> } \cup { <<p>> : p \in RawPaths }
           \cup { <<GuiFlag, <<"x", ".mp4">> >>,
                  << <<"x", ".mp4">>, GuiFlag >>,
                  << <<"/", "d", "/", "v", ".mp4">>, <<"x", ".pdf">> >> }

\* contents of the model entry; "" is an emptied entry
ModelNames == {"", "tiny"}

\* value of WHISPER_MODEL in the environment, "" when it is not set
EnvModels == {"", "small"}

\* what model.transcribe may return
Results == { [text |-> <<"SP", "hello", "SP", "world", "SP">>, segments |-> <<>>],
             [text |-> <<"SP">>, segments |-> << <<"a", "SP">>, <<"SP", "b">> >>] }

NoResult == [text |-> <<>>, segments |-> <<>>]

RunIds == 1..MaxRuns

\* ------------------------------------------------------------------ state
VARIABLES
    env,          \* os.environ["WHISPER_MODEL"], "" when unset
    mode,         \* "init", "cli", "gui", "exited": where the process is
    exitCode,     \* exit status once mode = "exited", -1 before
    stdout,       \* lines printed
    runs,         \* per call of transcribe_video: its locals and position
    nRuns,        \* number of calls of transcribe_video started
    tmpfiles,     \* runs whose temporary .wav file exists on disk
    outfiles,     \* transcript files on disk: set of [path, content]
    path_var,     \* tk.StringVar of the path entry
    model_var,    \* tk.StringVar of the model entry
    status_var,   \* tk.StringVar of the status label
    start_btn,    \* state of the start button
    browse_btn,   \* state of the browse button
    progress,     \* TRUE while the progress bar is running
    msg_queue,    \* queue.Queue shared by the worker and the UI thread
    uiPc,         \* UI thread: "idle" (in mainloop), "polling" (inside
                  \* process_queue), "dialog" (inside a modal messagebox)
    dialog,       \* the messagebox shown: "none", "warning", "info", "error"
    afterPending, \* number of process_queue callbacks scheduled by root.after
    enq,          \* history: every tuple put on msg_queue, in order
    applied       \* history: every tuple process_queue has applied, in order

vars == <<env, mode, exitCode, stdout, runs, nRuns, tmpfiles, outfiles,
          path_var, model_var, status_var, start_btn, browse_btn, progress,
          msg_queue, uiPc, dialog, afterPending, enq, applied>>

\* UI state other than the status text
uiCtl == <<path_var, model_var, start_btn, browse_btn, progress, uiPc, dialog,
           afterPending>>
procVars == <<env, mode, exitCode>>
fsVars == <<tmpfiles, outfiles>>

\* a status text or message: a fixed part and the path it carries
Msg(m, p) == [msg |-> m, path |-> p]

Tuple(k, payload, r) == [kind |-> k, payload |-> payload, run |-> r]

NewRun(caller, video_path, model_name) ==
    [pc |-> "validate", caller |-> caller, arg |-> video_path,
     model_arg |-> model_name, video_path |-> video_path, txt_path |-> <<>>,
     model_name |-> "", result |-> NoResult, text |-> <<>>, exc |-> "none",
     log |-> <<>>]

UnusedRun == [NewRun("none", <<>>, "") EXCEPT !.pc = "unused"]

\* what is kept of a worker's call once the thread has ended and a later run
\* starts: its locals are gone, and its history is no longer followed
EndedRun == [NewRun("gui", <<>>, "") EXCEPT !.pc = "forgotten"]

Init ==
    /\ env \in EnvModels
    /\ mode = "init"
    /\ exitCode = -1
    /\ stdout = <<>>
    /\ runs = [r \in RunIds |-> UnusedRun]
    /\ nRuns = 0
    /\ tmpfiles = {}
    /\ outfiles = {}
    /\ path_var = <<>>
    /\ model_var = ""
    /\ status_var = Msg("", <<>>)
    /\ start_btn = "normal"
    /\ browse_btn = "normal"
    /\ progress = FALSE
    /\ msg_queue = <<>>
    /\ uiPc = "idle"
    /\ dialog = "none"
    /\ afterPending = 0
    /\ enq = <<>>
    /\ applied = <<>>

Alive == mode \in {"cli", "gui"}

Log(r, ev, p) == Append(runs[r].log, [ev |-> ev, path |-> p])

\* post_status writing the status label itself instead of queueing the text
post_status_direct(r, message) ==
    /\ status_var' = message
    /\ UNCHANGED <<msg_queue, enq>>

\* ------------------------------------------------------- the status hooks
\* launch_gui.post_status: the hook the worker passes to the pipeline
post_status(r, message) ==
    /\ msg_queue' = Append(msg_queue, Tuple("status", message, r))
    /\ enq' = Append(enq, Tuple("status", message, r))
    /\ UNCHANGED status_var

\* run_cli's hook, tqdm.write
printer(message) == stdout' = Append(stdout, message)

\* the call status_cb(message) made by run r
status_cb(r, message) ==
    IF runs[r].caller = "gui"
    THEN post_status(r, message) /\ UNCHANGED stdout
    ELSE printer(message) /\ UNCHANGED <<msg_queue, enq, status_var>>

\* frame of a pipeline step that calls no hook
NoHook == UNCHANGED <<msg_queue, enq, status_var, stdout>>

\* frame of every pipeline step
PipelineFrame == UNCHANGED <<procVars, nRuns, uiCtl, applied>>

At(r, pc) == Alive /\ runs[r].pc = pc

\* Validate with line 43 lacking .lower(): the extension is compared as
\* written
Validate_case_sensitive(video_path) ==
    IF video_path = <<>> THEN "ValueError_empty"
    ELSE CHOOSE e \in
           { IF p \notin Files THEN "FileNotFoundError"
             ELSE IF splitext_ext(p) \notin SUPPORTED_EXTS THEN "ValueError_ext"
             ELSE "none" : p \in {normalize_path(video_path)} } : TRUE

\* ------------------------------------------------- transcribe_video, by step
\* lines 36-47: the three checks in the order of the code; "none" when the
\* path passes.  Line 36 reads the path as passed; line 39 rebinds it to
\* its normalized form p, which lines 40 and 43 read.
Validate(video_path) ==
    IF video_path = <<>> THEN "ValueError_empty"
    ELSE CHOOSE e \in
           { IF p \notin Files THEN "FileNotFoundError"
             ELSE IF Lower(splitext_ext(p)) \notin SUPPORTED_EXTS THEN "ValueError_ext"
             ELSE "none" : p \in {normalize_path(video_path)} } : TRUE

\* lines 36-47: a failed check raises outside the try block
tv_validate(r) ==
    /\ At(r, "validate")
    /\ runs' = [runs EXCEPT
            ![r].exc = Validate(runs[r].arg),
            ![r].video_path = IF runs[r].arg = <<>> THEN <<>>
                              ELSE normalize_path(runs[r].arg),
            ![r].pc = IF Validate(runs[r].arg) = "none" THEN "alloc" ELSE "raised"]
    /\ NoHook /\ PipelineFrame /\ UNCHANGED fsVars

\* lines 49-55: derive the transcript path, create the temporary file
tv_alloc(r) ==
    /\ At(r, "alloc")
    /\ tmpfiles' = tmpfiles \cup {r}
    /\ runs' = [runs EXCEPT
            ![r].txt_path = TxtPath(runs[r].video_path),
            ![r].log = Log(r, "tmp_create", <<>>),
            ![r].pc = "status_extract"]
    /\ NoHook /\ PipelineFrame /\ UNCHANGED outfiles

\* line 58
tv_status_extract(r) ==
    /\ At(r, "status_extract")
    /\ status_cb(r, Msg("extracting audio", <<>>))
    /\ runs' = [runs EXCEPT ![r].log = Log(r, "extracting audio", <<>>),
                            ![r].pc = "extract"]
    /\ PipelineFrame /\ UNCHANGED fsVars

\* line 59 and 76-77: extract_audio returns, raises ffmpeg.Error (wrapped in a
\* RuntimeError by the except clause) or raises something else (ffmpeg not
\* installed: the OSError of the failed spawn)
tv_extract_audio(r) ==
    /\ At(r, "extract")
    /\ \E out \in {"none", "RuntimeError_ffmpeg", "OSError_extract"} :
          runs' = [runs EXCEPT
              ![r].log = Log(r, "call extract_audio", <<>>),
              ![r].exc = out,
              ![r].pc = IF out = "none" THEN "status_recognize" ELSE "finally"]
    /\ NoHook /\ PipelineFrame /\ UNCHANGED fsVars

\* line 61
tv_status_recognize(r) ==
    /\ At(r, "status_recognize")
    /\ status_cb(r, Msg("recognizing", <<>>))
    /\ runs' = [runs EXCEPT ![r].log = Log(r, "recognizing", <<>>),
                            ![r].pc = "load"]
    /\ PipelineFrame /\ UNCHANGED fsVars

\* line 62: explicit argument, else WHISPER_MODEL, else "base"
ResolveModel(model_name) ==
    IF model_name # "" THEN model_name
    ELSE IF env # "" THEN env ELSE "base"

\* the worker reading the model entry when the model is loaded instead of
\* taking the value passed at line 146
tv_load_model_late(r) ==
    /\ At(r, "load")
    /\ \E out \in {"none", "LoadError"} :
          runs' = [runs EXCEPT
              ![r].model_name = ResolveModel(IF runs[r].caller = "gui"
                                             THEN model_var
                                             ELSE runs[r].model_arg),
              ![r].log = Log(r, "call load_model", <<>>),
              ![r].exc = out,
              ![r].pc = IF out = "none" THEN "recognize" ELSE "finally"]
    /\ NoHook /\ PipelineFrame /\ UNCHANGED fsVars

\* lines 62-63: load_model returns or raises
tv_load_model(r) ==
    /\ At(r, "load")
    /\ \E out \in {"none", "LoadError"} :
          runs' = [runs EXCEPT
              ![r].model_name = ResolveModel(runs[r].model_arg),
              ![r].log = Log(r, "call load_model", <<>>),
              ![r].exc = out,
              ![r].pc = IF out = "none" THEN "recognize" ELSE "finally"]
    /\ NoHook /\ PipelineFrame /\ UNCHANGED fsVars

\* lines 64-68: transcribe_audio returns a result, from which the text is
\* taken, or raises
tv_transcribe_audio(r) ==
    /\ At(r, "recognize")
    /\ \/ \E res \in Results :
             runs' = [runs EXCEPT
                 ![r].result = res,
                 ![r].text = ResultText(res),
                 ![r].log = Log(r, "call transcribe_audio", <<>>),
                 ![r].pc = "write"]
       \/ runs' = [runs EXCEPT
                 ![r].log = Log(r, "call transcribe_audio", <<>>),
                 ![r].exc = "RecognitionError",
                 ![r].pc = "finally"]
    /\ NoHook /\ PipelineFrame /\ UNCHANGED fsVars

\* the disk after writing content to path (an existing file is replaced)
WriteFile(path, content) ==
    {f \in outfiles : f.path # path} \cup {[path |-> path, content |-> content]}

\* lines 70-71: open(txt_path, "w") and write; open may fail (nothing
\* changes), the write may fail after open has truncated the file
tv_write(r) ==
    /\ At(r, "write")
    /\ \/ /\ outfiles' = WriteFile(runs[r].txt_path, runs[r].text)
          /\ runs' = [runs EXCEPT ![r].log = Log(r, "write", runs[r].txt_path),
                                  ![r].pc = "status_done"]
       \/ /\ outfiles' \in {outfiles, WriteFile(runs[r].txt_path, <<>>)}
          /\ runs' = [runs EXCEPT ![r].exc = "OSError_write",
                                  ![r].pc = "finally"]
    /\ NoHook /\ PipelineFrame /\ UNCHANGED tmpfiles

\* tv_status_done with the call of the hook left out: the run goes from the
\* write straight to the "saved to" status
tv_status_done_skipped(r) ==
    /\ At(r, "status_done")
    /\ runs' = [runs EXCEPT ![r].pc = "status_saved"]
    /\ NoHook /\ PipelineFrame /\ UNCHANGED fsVars

\* line 73
tv_status_done(r) ==
    /\ At(r, "status_done")
    /\ status_cb(r, Msg("done", <<>>))
    /\ runs' = [runs EXCEPT ![r].log = Log(r, "done", <<>>),
                            ![r].pc = "status_saved"]
    /\ PipelineFrame /\ UNCHANGED fsVars

\* line 74 calling the hook with the text of line 73 a second time
tv_status_saved_repeats_done(r) ==
    /\ At(r, "status_saved")
    /\ status_cb(r, Msg("done", <<>>))
    /\ runs' = [runs EXCEPT ![r].log = Log(r, "done", <<>>),
                            ![r].pc = "finally"]
    /\ PipelineFrame /\ UNCHANGED fsVars

\* lines 74-75: the second status, then return txt_path through finally
tv_status_saved(r) ==
    /\ At(r, "status_saved")
    /\ status_cb(r, Msg("saved to", runs[r].txt_path))
    /\ runs' = [runs EXCEPT ![r].log = Log(r, "saved to", runs[r].txt_path),
                            ![r].pc = "finally"]
    /\ PipelineFrame /\ UNCHANGED fsVars

\* tv_finally with the clean-up left out: the pending return or exception
\* goes through and the temporary file stays
tv_finally_no_remove(r) ==
    /\ At(r, "finally")
    /\ tmpfiles' = tmpfiles
    /\ runs' = [runs EXCEPT
           ![r].pc = IF runs[r].exc = "none" THEN "returned" ELSE "raised"]
    /\ NoHook /\ PipelineFrame /\ UNCHANGED outfiles

\* lines 78-80: the finally block, entered with a pending return (exc "none")
\* or a pending exception; os.remove may itself raise, and its exception
\* then replaces whatever was pending
tv_finally(r) ==
    /\ At(r, "finally")
    /\ IF r \in tmpfiles
       THEN \/ /\ tmpfiles' = tmpfiles \ {r}
               /\ runs' = [runs EXCEPT
                      ![r].log = Log(r, "tmp_remove", <<>>),
                      ![r].pc = IF runs[r].exc = "none" THEN "returned" ELSE "raised"]
            \/ /\ tmpfiles' = tmpfiles
               /\ runs' = [runs EXCEPT ![r].exc = "OSError_remove",
                                       ![r].pc = "raised"]
       ELSE /\ tmpfiles' = tmpfiles
            /\ runs' = [runs EXCEPT
                      ![r].pc = IF runs[r].exc = "none" THEN "returned" ELSE "raised"]
    /\ NoHook /\ PipelineFrame /\ UNCHANGED outfiles

\* --------------------------------------------------------------- run_cli
\* line 87 and main's return: print the result path, exit status 0
run_cli_ok(r) ==
    /\ At(r, "returned") /\ runs[r].caller = "cli"
    /\ printer(Msg("result file", runs[r].txt_path))
    /\ runs' = [runs EXCEPT ![r].pc = "finished"]
    /\ mode' = "exited"
    /\ exitCode' = 0
    /\ UNCHANGED <<env, nRuns, fsVars, uiCtl, status_var, msg_queue, enq,
                   applied>>

\* lines 88-90: print the exception, sys.exit(1)
run_cli_fail(r) ==
    /\ At(r, "raised") /\ runs[r].caller = "cli"
    /\ stdout' = Append(stdout, Msg(runs[r].exc, <<>>))
    /\ runs' = [runs EXCEPT ![r].pc = "finished"]
    /\ mode' = "exited"
    /\ exitCode' = 1
    /\ UNCHANGED <<env, nRuns, fsVars, uiCtl, status_var, msg_queue, enq,
                   applied>>

\* ----------------------------------------------------- launch_gui.worker
WorkerFrame == UNCHANGED <<procVars, nRuns, fsVars, uiCtl, status_var, stdout,
                           applied>>

Put(tuple) ==
    /\ msg_queue' = Append(msg_queue, tuple)
    /\ enq' = Append(enq, tuple)

\* line 131: transcribe_video returned; the thread ends after the put
worker_done(r) ==
    /\ At(r, "returned") /\ runs[r].caller = "gui"
    /\ Put(Tuple("done", Msg("done", runs[r].txt_path), r))
    /\ runs' = [runs EXCEPT ![r].pc = "finished"]
    /\ WorkerFrame

\* worker_error without the put: the exception is swallowed and the thread
\* ends without telling the UI
worker_error_silent(r) ==
    /\ At(r, "raised") /\ runs[r].caller = "gui"
    /\ UNCHANGED <<msg_queue, enq>>
    /\ runs' = [runs EXCEPT ![r].pc = "finished"]
    /\ WorkerFrame

\* lines 132-133: transcribe_video raised; the thread ends after the put
worker_error(r) ==
    /\ At(r, "raised") /\ runs[r].caller = "gui"
    /\ Put(Tuple("error", Msg(runs[r].exc, <<>>), r))
    /\ runs' = [runs EXCEPT ![r].pc = "finished"]
    /\ WorkerFrame

\* a worker thread exists and has not ended
WorkerAlive(r) ==
    /\ runs[r].caller = "gui"
    /\ runs[r].pc \notin {"unused", "finished", "forgotten", "killed"}

\* ------------------------------------------------------ the UI thread
UiIdle == mode = "gui" /\ uiPc = "idle"

\* the path entry is edited (it is never disabled)
EditPath ==
    /\ UiIdle
    /\ \E p \in EntryTexts : path_var' = p
    /\ path_var' # path_var
    /\ UNCHANGED <<procVars, stdout, runs, nRuns, fsVars, model_var, status_var,
                   start_btn, browse_btn, progress, msg_queue, uiPc, dialog,
                   afterPending, enq, applied>>

\* the model entry is edited (it is never disabled)
EditModel ==
    /\ UiIdle
    /\ \E m \in ModelNames : model_var' = m
    /\ model_var' # model_var
    /\ UNCHANGED <<procVars, stdout, runs, nRuns, fsVars, path_var, status_var,
                   start_btn, browse_btn, progress, msg_queue, uiPc, dialog,
                   afterPending, enq, applied>>

\* lines 112-124: the browse button; the file dialog returns an existing file
\* or "" when cancelled
choose_file ==
    /\ UiIdle
    /\ browse_btn = "normal"
    /\ \E file_path \in DialogChoices :
          IF file_path # <<>>
          THEN /\ path_var' = file_path
               /\ status_var' = Msg("ready to start", <<>>)
          ELSE UNCHANGED <<path_var, status_var>>
    /\ UNCHANGED <<procVars, stdout, runs, nRuns, fsVars, model_var, start_btn,
                   browse_btn, progress, msg_queue, uiPc, dialog, afterPending,
                   enq, applied>>

\* lines 137-139: nothing selected, a modal warning and return
start_warn ==
    /\ uiPc' = "dialog"
    /\ dialog' = "warning"
    /\ UNCHANGED <<runs, nRuns, start_btn, browse_btn, progress, status_var,
                   enq, applied>>

\* start_launch without line 140: the start button stays enabled
start_launch_reentrant(video_path) ==
    /\ nRuns < MaxRuns
    /\ start_btn' = start_btn
    /\ browse_btn' = "disabled"
    /\ progress' = TRUE
    /\ status_var' = Msg("starting", <<>>)
    /\ nRuns' = nRuns + 1
    /\ runs' = [r \in RunIds |->
                   IF r = nRuns + 1 THEN NewRun("gui", video_path, model_var)
                   ELSE IF runs[r].pc = "finished" THEN EndedRun
                   ELSE runs[r]]
    /\ enq' = SelectSeq(enq, LAMBDA t : runs[t.run].pc # "finished")
    /\ applied' = SelectSeq(applied, LAMBDA t : runs[t.run].pc # "finished")
    /\ UNCHANGED <<uiPc, dialog>>

\* lines 140-147: disable the controls, start the progress bar, start one
\* daemon thread on the values read from the entries now
start_launch(video_path) ==
    /\ nRuns < MaxRuns
    /\ start_btn' = "disabled"
    /\ browse_btn' = "disabled"
    /\ progress' = TRUE
    /\ status_var' = Msg("starting", <<>>)
    /\ nRuns' = nRuns + 1
    /\ runs' = [r \in RunIds |->
                   IF r = nRuns + 1 THEN NewRun("gui", video_path, model_var)
                   ELSE IF runs[r].pc = "finished" THEN EndedRun
                   ELSE runs[r]]
    /\ enq' = SelectSeq(enq, LAMBDA t : runs[t.run].pc # "finished")
    /\ applied' = SelectSeq(applied, LAMBDA t : runs[t.run].pc # "finished")
    /\ UNCHANGED <<uiPc, dialog>>

\* start_transcription without lines 137-139: a worker is started whatever
\* the entry holds
start_transcription_unchecked ==
    /\ UiIdle
    /\ start_btn = "normal"
    /\ start_launch(StripChars(path_var, Whitespace))
    /\ UNCHANGED <<procVars, stdout, fsVars, path_var, model_var, msg_queue,
                   afterPending>>

\* lines 135-147: the command of the start button, which Tk invokes only
\* while the button is enabled
start_transcription ==
    /\ UiIdle
    /\ start_btn = "normal"
    /\ LET video_path == StripChars(path_var, Whitespace)
       IN  IF video_path = <<>> THEN start_warn ELSE start_launch(video_path)
    /\ UNCHANGED <<procVars, stdout, fsVars, path_var, model_var, msg_queue,
                   afterPending>>

\* the warning of start_transcription is dismissed and the handler returns
dismiss_warning ==
    /\ mode = "gui" /\ uiPc = "dialog" /\ dialog = "warning"
    /\ uiPc' = "idle"
    /\ dialog' = "none"
    /\ UNCHANGED <<procVars, stdout, runs, nRuns, fsVars, path_var, model_var,
                   status_var, start_btn, browse_btn, progress, msg_queue,
                   afterPending, enq, applied>>

\* lines 149-150: a scheduled process_queue callback fires
pq_enter ==
    /\ UiIdle
    /\ afterPending > 0
    /\ afterPending' = afterPending - 1
    /\ uiPc' = "polling"
    /\ UNCHANGED <<procVars, stdout, runs, nRuns, fsVars, path_var, model_var,
                   status_var, start_btn, browse_btn, progress, msg_queue,
                   dialog, enq, applied>>

\* QueueGet on a LIFO queue: the newest tuple is taken first
QueueGet_lifo(q) == [item |-> q[Len(q)], rest |-> SubSeq(q, 1, Len(q) - 1)]

\* msg_queue.get_nowait(): the tuple taken and the queue left
QueueGet(q) == [item |-> Head(q), rest |-> Tail(q)]

\* lines 152-166: one turn of the loop: take a tuple and apply it
pq_apply ==
    /\ mode = "gui" /\ uiPc = "polling"
    /\ msg_queue # <<>>
    /\ LET got == QueueGet(msg_queue)
           kind == got.item.kind
           payload == got.item.payload
       IN  /\ msg_queue' = got.rest
           /\ applied' = Append(applied, got.item)
           /\ IF kind = "status"
              THEN /\ status_var' = payload
                   /\ UNCHANGED <<start_btn, browse_btn, progress, uiPc, dialog>>
              ELSE /\ progress' = FALSE
                   /\ start_btn' = "normal"
                   /\ browse_btn' = "normal"
                   /\ status_var' = IF kind = "done"
                                    THEN Msg("done, see", payload.path)
                                    ELSE Msg("error", <<>>)
                   /\ uiPc' = "dialog"
                   /\ dialog' = IF kind = "done" THEN "info" ELSE "error"
    /\ UNCHANGED <<procVars, stdout, runs, nRuns, fsVars, path_var, model_var,
                   afterPending, enq>>

\* lines 160, 166: the messagebox of process_queue returns, the loop goes on
pq_dialog_closed ==
    /\ mode = "gui" /\ uiPc = "dialog" /\ dialog \in {"info", "error"}
    /\ uiPc' = "polling"
    /\ dialog' = "none"
    /\ UNCHANGED <<procVars, stdout, runs, nRuns, fsVars, path_var, model_var,
                   status_var, start_btn, browse_btn, progress, msg_queue,
                   afterPending, enq, applied>>

\* process_queue with the re-arming call in the except clause's place only
\* when a tuple was applied: on queue.Empty nothing is scheduled
pq_empty_no_rearm ==
    /\ mode = "gui" /\ uiPc = "polling"
    /\ msg_queue = <<>>
    /\ uiPc' = "idle"
    /\ UNCHANGED <<procVars, stdout, runs, nRuns, fsVars, path_var, model_var,
                   status_var, start_btn, browse_btn, progress, msg_queue,
                   dialog, afterPending, enq, applied>>

\* lines 167-170: queue.Empty ends the loop, finally schedules the next call
pq_empty ==
    /\ mode = "gui" /\ uiPc = "polling"
    /\ msg_queue = <<>>
    /\ afterPending' = afterPending + 1
    /\ uiPc' = "idle"
    /\ UNCHANGED <<procVars, stdout, runs, nRuns, fsVars, path_var, model_var,
                   status_var, start_btn, browse_btn, progress, msg_queue,
                   dialog, enq, applied>>

\* line 199 and 145: the window is closed, mainloop and main return and the
\* interpreter exits; daemon threads still running are stopped where they
\* are (no finally block of theirs runs).  Of the process only the files on
\* disk remain: the window, the queue and the locals of every call are gone.
close_ui ==
    /\ UiIdle
    /\ mode' = "exited"
    /\ exitCode' = 0
    /\ runs' = [r \in RunIds |->
                   IF WorkerAlive(r) THEN [EndedRun EXCEPT !.pc = "killed"]
                   ELSE IF runs[r].pc = "finished" THEN EndedRun
                   ELSE runs[r]]
    /\ path_var' = <<>>
    /\ model_var' = ""
    /\ status_var' = Msg("", <<>>)
    /\ start_btn' = "normal"
    /\ browse_btn' = "normal"
    /\ progress' = FALSE
    /\ msg_queue' = <<>>
    /\ afterPending' = 0
    /\ enq' = <<>>
    /\ applied' = <<>>
    /\ UNCHANGED <<env, stdout, nRuns, fsVars, uiPc, dialog>>

\* ------------------------------------------------------------------ main
RECURSIVE WithoutGui(_)
WithoutGui(raw_args) ==
    IF raw_args = <<>> THEN <<>>
    ELSE IF Head(raw_args) = GuiFlag THEN WithoutGui(Tail(raw_args))
    ELSE <<Head(raw_args)>> \o WithoutGui(Tail(raw_args))

\* line 204 without "or not raw_args": only the flag selects the window
UseGui_flag_only(raw_args) ==
    \E i \in 1..Len(raw_args) : raw_args[i] = GuiFlag

\* line 204
UseGui(raw_args) ==
    (\E i \in 1..Len(raw_args) : raw_args[i] = GuiFlag) \/ raw_args = <<>>

\* lines 202-216 on sys.argv[1:] = raw_args, with the construction of the window (lines 99-107, 198) or
\* the call of transcribe_video by run_cli (line 86)
main(raw_args) ==
    /\ mode = "init"
    /\ LET args == WithoutGui(raw_args)
       IN  IF UseGui(raw_args)
           THEN /\ mode' = "gui"
                /\ model_var' = IF env # "" THEN env ELSE "base"
                /\ status_var' = Msg("choose a video file", <<>>)
                /\ afterPending' = 1
                /\ UNCHANGED <<exitCode, stdout, runs, nRuns>>
           ELSE IF args = <<>>
           THEN /\ mode' = "exited"
                /\ exitCode' = 1
                /\ stdout' = stdout \o <<Msg("usage", <<>>), Msg("usage gui", <<>>)>>
                /\ UNCHANGED <<runs, nRuns, model_var, status_var, afterPending>>
           ELSE /\ mode' = "cli"
                /\ nRuns' = 1
                /\ runs' = [runs EXCEPT ![1] = NewRun("cli", args[1], "")]
                /\ UNCHANGED <<exitCode, stdout, model_var, status_var,
                               afterPending>>
    /\ UNCHANGED <<env, fsVars, path_var, start_btn, browse_btn, progress,
                   msg_queue, uiPc, dialog, enq, applied>>

\* ------------------------------------------------------- specification
Next ==
    \/ \E raw_args \in Argvs : main(raw_args)
    \/ \E r \in RunIds :
          \/ tv_validate(r)
          \/ tv_alloc(r)
          \/ tv_status_extract(r)
          \/ tv_extract_audio(r)
          \/ tv_status_recognize(r)
          \/ tv_load_model(r)
          \/ tv_transcribe_audio(r)
          \/ tv_write(r)
          \/ tv_status_done(r)
          \/ tv_status_saved(r)
          \/ tv_finally(r)
          \/ run_cli_ok(r)
          \/ run_cli_fail(r)
          \/ worker_done(r)
          \/ worker_error(r)
    \/ EditPath
    \/ EditModel
    \/ choose_file
    \/ start_transcription
    \/ dismiss_warning
    \/ pq_enter
    \/ pq_apply
    \/ pq_dialog_closed
    \/ pq_empty
    \/ close_ui

Spec == Init /\ [][Next]_vars

\* ------------------------------------------------ vocabulary of the claims
\* transcribe_video has returned or raised in run r (and, for "finished",
\* its caller has dealt with the outcome)
Terminated(r) == runs[r].pc \in {"returned", "raised", "finished"}

ValidationErrors == {"ValueError_empty", "FileNotFoundError", "ValueError_ext"}

\* run r got past validation
PastValidation(r) ==
    /\ runs[r].pc \notin {"unused", "validate", "forgotten", "killed"}
    /\ runs[r].exc \notin ValidationErrors

StatusTexts == {"extracting audio", "recognizing", "done", "saved to"}

\* the status events run r has emitted, in order
Emitted(r) == SelectSeq(runs[r].log, LAMBDA e : e.ev \in StatusTexts)

\* what the status hook of run r has received, in order
HookReceived(r) ==
    IF runs[r].caller = "gui"
    THEN LET st == SelectSeq(enq, LAMBDA t : t.run = r /\ t.kind = "status")
         IN  [i \in 1..Len(st) |-> st[i].payload]
    ELSE SelectSeq(stdout, LAMBDA m : m.msg \in StatusTexts)

\* position of the first event ev in the log of run r, 0 when absent
Pos(r, ev) ==
    LET idx == {i \in 1..Len(runs[r].log) : runs[r].log[i].ev = ev}
    IN  IF idx = {} THEN 0 ELSE CHOOSE i \in idx : \A j \in idx : i <= j

Has(r, ev) == Pos(r, ev) # 0

\* the tuples run r has put on the queue, and those the UI has applied
EnqOf(r) == SelectSeq(enq, LAMBDA t : t.run = r)
AppliedOf(r) == SelectSeq(applied, LAMBDA t : t.run = r)

Terminal(t) == t.kind \in {"done", "error"}

IsPrefix(a, b) == Len(a) <= Len(b) /\ SubSeq(b, 1, Len(a)) = a

\* ------------------------------------------------------------------ C1
\* C1 as stated: for every run of transcribe_video that got past validation
\* and has terminated, whatever its outcome, the temporary waveform file of
\* the run does not exist.
C1_TempGoneWhateverOutcome ==
    \A r \in RunIds :
        (PastValidation(r) /\ Terminated(r)) => r \notin tmpfiles

\* C1 amended: for every run of transcribe_video that got past validation
\* and has terminated, on success, extraction failure, model-load or
\* recognition failure and failure writing the transcript, the temporary
\* waveform file of the run does not exist; it is left on disk only when
\* os.remove itself raised in the finally block.
C1_TempGoneUnlessRemoveFailed ==
    \A r \in RunIds :
        (PastValidation(r) /\ Terminated(r))
            => (r \in tmpfiles <=> runs[r].exc = "OSError_remove")

\* a run that failed while writing the transcript, after the temporary file
\* was created, has terminated with the file removed
C1_Witness ==
    \E r \in RunIds :
        /\ runs[r].pc = "raised"
        /\ runs[r].exc = "OSError_write"
        /\ Has(r, "tmp_create") /\ Has(r, "tmp_remove")
        /\ r \notin tmpfiles

\* ------------------------------------------------------------------ C2
\* C2: in every successful run of transcribe_video the status hook has
\* received exactly four events, in this order: "extracting audio",
\* "recognizing", "done", "saved to <output path>"; extract_audio was called
\* after the first, load_model and transcribe_audio after the second, and
\* the transcript was written before "done".
SuccessEvents(r) ==
    << Msg("extracting audio", <<>>), Msg("recognizing", <<>>),
       Msg("done", <<>>), Msg("saved to", runs[r].txt_path) >>

C2_SuccessStatusOrder ==
    \A r \in RunIds :
        (runs[r].pc = "returned") =>
            /\ HookReceived(r) = SuccessEvents(r)
            /\ [i \in 1..Len(Emitted(r)) |->
                    Msg(Emitted(r)[i].ev, Emitted(r)[i].path)] = SuccessEvents(r)
            /\ runs[r].txt_path = TxtPath(runs[r].video_path)
            /\ 0 < Pos(r, "extracting audio")
            /\ Pos(r, "extracting audio") < Pos(r, "call extract_audio")
            /\ Pos(r, "call extract_audio") < Pos(r, "recognizing")
            /\ Pos(r, "recognizing") < Pos(r, "call load_model")
            /\ Pos(r, "call load_model") < Pos(r, "call transcribe_audio")
            /\ Pos(r, "call transcribe_audio") < Pos(r, "write")
            /\ Pos(r, "write") < Pos(r, "done")
            /\ Pos(r, "done") < Pos(r, "saved to")

\* a run started from the window has returned successfully
C2_Witness ==
    \E r \in RunIds :
        /\ runs[r].pc = "returned"
        /\ runs[r].caller = "gui"
        /\ Len(HookReceived(r)) = 4

\* a worker thread was started for run r and its history is still followed
Followed(r) ==
    /\ runs[r].caller = "gui"
    /\ runs[r].pc \notin {"unused", "forgotten", "killed"}

\* positions of the terminal tuples in a sequence of tuples
TerminalsIn(q) == {i \in 1..Len(q) : Terminal(q[i])}

\* ------------------------------------------------------------------ C3
\* C3: every worker puts exactly one terminal tuple on the queue, ("done",
\* path) when the pipeline returned and ("error", message) when it raised,
\* never both and never none, as its last action: no terminal tuple before
\* the thread ends, one once it has ended, and no tuple of the run after it.
C3_OneTerminalTuple ==
    \A r \in RunIds :
        Followed(r) =>
            /\ Cardinality(TerminalsIn(EnqOf(r))) <= 1
            /\ \A i \in TerminalsIn(EnqOf(r)) : i = Len(EnqOf(r))
            /\ (runs[r].pc = "finished") <=> (TerminalsIn(EnqOf(r)) # {})
            /\ (runs[r].pc = "finished") =>
                  EnqOf(r)[Len(EnqOf(r))].kind =
                      IF runs[r].exc = "none" THEN "done" ELSE "error"

\* a worker whose pipeline failed in recognition has ended: two status
\* tuples, then the error tuple
C3_Witness ==
    \E r \in RunIds :
        /\ Followed(r)
        /\ runs[r].pc = "finished"
        /\ runs[r].exc = "RecognitionError"
        /\ Len(EnqOf(r)) = 3
        /\ EnqOf(r)[3].kind = "error"

\* ------------------------------------------------------------------ C4
\* C4: under every interleaving of the worker's puts with the UI thread's
\* polls, the tuples the UI thread has applied for a run are a prefix of the
\* tuples the worker has put, in the same order, and a terminal tuple, once
\* applied, is the last tuple applied for the run and the last the run put.
C4_FifoTerminalLast ==
    \A r \in RunIds :
        Followed(r) =>
            /\ IsPrefix(AppliedOf(r), EnqOf(r))
            /\ \A i \in TerminalsIn(AppliedOf(r)) :
                  /\ i = Len(AppliedOf(r))
                  /\ Len(AppliedOf(r)) = Len(EnqOf(r))

\* the UI has applied the five tuples of a successful run: four status
\* tuples, then the terminal tuple
C4_Witness ==
    \E r \in RunIds :
        /\ Followed(r)
        /\ Len(AppliedOf(r)) = 5
        /\ AppliedOf(r)[5].kind = "done"
        /\ AppliedOf(r)[1].kind = "status"

\* ------------------------------------------------------------------ C5
\* C5: at most one worker thread is alive at any time, and while the window
\* is open the start button is disabled from the launch of a worker until
\* the UI thread has applied the terminal tuple of that run, so no start is
\* accepted while an earlier run is in flight.
C5_OneWorker ==
    /\ Cardinality({r \in RunIds : WorkerAlive(r)}) <= 1
    /\ \A r \in RunIds :
          (mode = "gui" /\ Followed(r) /\ TerminalsIn(AppliedOf(r)) = {})
              => start_btn = "disabled"

\* a second worker is running, started after the first run was over
C5_Witness ==
    /\ nRuns = 2
    /\ WorkerAlive(2)
    /\ ~WorkerAlive(1)
    /\ start_btn = "disabled"

\* ------------------------------------------------------------------ C6
\* state of the window that the user sees
UiVisible == <<status_var, progress, start_btn, browse_btn, path_var, model_var>>

\* a step of the worker thread of run r, the status hook included
WorkerStep(r) ==
    /\ runs[r].caller = "gui"
    /\ \/ tv_validate(r) \/ tv_alloc(r) \/ tv_status_extract(r)
       \/ tv_extract_audio(r) \/ tv_status_recognize(r) \/ tv_load_model(r)
       \/ tv_transcribe_audio(r) \/ tv_write(r) \/ tv_status_done(r)
       \/ tv_status_saved(r) \/ tv_finally(r)
       \/ worker_done(r) \/ worker_error(r)

\* C6: no step of a worker thread, the status hook it passes to the pipeline
\* included, changes the status text, the progress bar, the state of the
\* buttons, the entries or the position of the UI thread; the only shared
\* thing a worker step changes is the queue, by appending one tuple.  Every
\* change of the visible state is therefore a step of the UI thread.
C6_WorkerWritesOnlyQueue ==
    [][\A r \in RunIds :
          WorkerStep(r) =>
              /\ UNCHANGED UiVisible
              /\ UNCHANGED <<uiPc, dialog, afterPending>>
              /\ \/ msg_queue' = msg_queue
                 \/ /\ Len(msg_queue') = Len(msg_queue) + 1
                    /\ SubSeq(msg_queue', 1, Len(msg_queue)) = msg_queue]_vars

\* the worker has reported a status through the queue and the label still
\* shows what the UI thread wrote at the start
C6_Witness ==
    /\ \E i \in 1..Len(msg_queue) : msg_queue[i].kind = "status"
    /\ status_var = Msg("starting", <<>>)
    /\ \E r \in RunIds : WorkerAlive(r)

\* ------------------------------------------------------------------ C7
\* C7: in every run of transcribe_video that ends with an exception reaching
\* the caller, a failure writing the transcript or deleting the temporary
\* file included, neither the "done" status nor the "saved to <path>"
\* status has been emitted.
C7_NoPartialSuccess ==
    \A r \in RunIds :
        (Terminated(r) /\ runs[r].exc # "none")
            => (~Has(r, "done") /\ ~Has(r, "saved to"))

\* ------------------------------------------------------------------ C8
\* the conditions under which validation is to fail: the path is empty, or
\* (trimmed of surrounding blanks and quotes) does not name an existing
\* file, or its extension, compared without regard to case, is not supported
InvalidInput(p) ==
    \/ p = <<>>
    \/ normalize_path(p) \notin Files
    \/ ~\E e \in SUPPORTED_EXTS : Lower(splitext_ext(normalize_path(p))) = e

\* validation is over for run r and its argument is still known
Validated(r) == runs[r].pc \notin {"unused", "validate", "forgotten", "killed"}

\* C8: a run whose path is empty, names no existing file or has an
\* unsupported extension fails in validation, and such a run has created no
\* temporary file, emitted no status, called neither collaborator and
\* written no output file; a run whose path names an existing file with a
\* supported extension in any letter case passes validation: its next step
\* creates the temporary file.
C8_ValidationShortCircuit ==
    \A r \in RunIds :
        Validated(r) =>
            /\ InvalidInput(runs[r].arg) <=> (runs[r].exc \in ValidationErrors)
            /\ (runs[r].exc \in ValidationErrors) =>
                  /\ runs[r].pc \in {"raised", "finished"}
                  /\ runs[r].log = <<>>
                  /\ runs[r].txt_path = <<>>
                  /\ r \notin tmpfiles
                  /\ HookReceived(r) = <<>>
                  /\ runs[r].caller = "cli" => (tmpfiles = {} /\ outfiles = {})
            /\ ~InvalidInput(runs[r].arg) =>
                  (runs[r].pc = "alloc" \/ Has(r, "tmp_create"))

\* a headless run on an existing file with an unsupported extension has
\* failed in validation, with nothing on disk and nothing printed
C8_Witness ==
    \E r \in RunIds :
        /\ runs[r].pc = "raised"
        /\ runs[r].caller = "cli"
        /\ runs[r].exc = "ValueError_ext"
        /\ tmpfiles = {} /\ outfiles = {} /\ stdout = <<>>

\* ------------------------------------------------------------------ C9
\* C9: a start request while the path entry is empty after trimming blanks
\* starts no worker, puts nothing on the queue, and leaves the start and
\* browse buttons enabled and the progress bar stopped.
C9_EmptyStartDoesNothing ==
    [][(start_transcription /\ StripChars(path_var, Whitespace) = <<>>)
          => /\ UNCHANGED <<nRuns, runs, msg_queue, enq>>
             /\ start_btn' = "normal"
             /\ browse_btn' = "normal"
             /\ progress' = FALSE]_vars

\* the warning is shown after a start on an entry holding only a blank: no
\* run was started and the queue is empty
C9_Witness ==
    /\ uiPc = "dialog" /\ dialog = "warning"
    /\ path_var = <<"SP">>
    /\ nRuns = 0 /\ msg_queue = <<>> /\ enq = <<>>
    /\ start_btn = "normal" /\ browse_btn = "normal" /\ ~progress

\* ------------------------------------------------------------------ C10
\* C10: when the window is closed while a run is active, the temporary
\* waveform file of that run does not remain on disk after the process has
\* ended.
C10_NoLeakOnClose ==
    \A r \in RunIds : (runs[r].pc = "killed") => r \notin tmpfiles

\* ------------------------------------------------------------------ C11
\* a step of the pipeline or of the worker function in run r
RunStep(r) ==
    \/ tv_validate(r) \/ tv_alloc(r) \/ tv_status_extract(r)
    \/ tv_extract_audio(r) \/ tv_status_recognize(r) \/ tv_load_model(r)
    \/ tv_transcribe_audio(r) \/ tv_write(r) \/ tv_status_done(r)
    \/ tv_status_saved(r) \/ tv_finally(r)
    \/ worker_done(r) \/ worker_error(r)

\* a step of the process_queue callback: entered from the main loop, one
\* tuple applied, or queue.Empty reached and the callback re-armed
PollStep == pq_enter \/ pq_apply \/ pq_empty

\* The scheduling the claim assumes: a started thread keeps running and each
\* collaborator call returns or raises; a scheduled process_queue callback
\* fires while the UI thread is in its main loop, and the loop of
\* process_queue runs on to queue.Empty.  Nothing is assumed of the user:
\* not that a dialog is dismissed, nor that the window stays open.
FairSpec ==
    /\ Spec
    /\ WF_vars(\E r \in RunIds : RunStep(r))
    /\ WF_vars(PollStep)

\* a run started from the window is in flight
Busy == mode = "gui" /\ \E r \in RunIds : WorkerAlive(r)

\* the window is idle and a run can be started
Retryable ==
    /\ mode = "gui"
    /\ ~progress
    /\ start_btn = "normal"
    /\ browse_btn = "normal"

\* C11: under that scheduling, whenever a run started from the window is in
\* flight, the window later shows the progress bar stopped and the start
\* and browse buttons enabled, on success and on every failure, unless the
\* user has closed the window in the meantime.
C11_EventuallyRetryable == Busy ~> (Retryable \/ mode = "exited")

\* a run failed in extraction and the UI thread, having applied its error
\* tuple, shows the window idle again
C11_Witness ==
    /\ Retryable
    /\ \E r \in RunIds :
          /\ Followed(r)
          /\ runs[r].exc = "RuntimeError_ffmpeg"
          /\ TerminalsIn(AppliedOf(r)) # {}

\* ------------------------------------------------------------------ C12
\* lines 151-170 when a Tk call of the loop body raises (a TclError): the
\* tuple has been taken from the queue; the exception is not queue.Empty, so
\* it leaves the loop and the callback through the finally block, which
\* schedules the next call.  The call that raises is either the first of
\* the branch (nothing applied) or the messagebox of a terminal tuple (the
\* widgets already reset, no dialog shown).
pq_raise ==
    /\ mode = "gui" /\ uiPc = "polling"
    /\ msg_queue # <<>>
    /\ LET got == QueueGet(msg_queue)
           kind == got.item.kind
       IN  /\ msg_queue' = got.rest
           /\ \E late \in BOOLEAN :
                IF late /\ kind # "status"
                THEN /\ progress' = FALSE
                     /\ start_btn' = "normal"
                     /\ browse_btn' = "normal"
                     /\ status_var' = IF kind = "done"
                                      THEN Msg("done, see", got.item.payload.path)
                                      ELSE Msg("error", <<>>)
                     /\ applied' = Append(applied, got.item)
                ELSE UNCHANGED <<progress, start_btn, browse_btn, status_var,
                                 applied>>
    /\ afterPending' = afterPending + 1
    /\ uiPc' = "idle"
    /\ UNCHANGED <<procVars, stdout, runs, nRuns, fsVars, path_var, model_var,
                   dialog, enq>>

\* the program with Tk calls of process_queue allowed to raise
SpecTclError == Init /\ [][Next \/ pq_raise]_vars

\* process_queue is on the UI thread's stack: in its loop, or inside the
\* messagebox it opened
PollRunning ==
    \/ uiPc = "polling"
    \/ uiPc = "dialog" /\ dialog \in {"info", "error"}

\* C12: while the window is open, exactly one process_queue call is either
\* running or scheduled, never two and never none; and every return from
\* process_queue (on queue.Empty or on an exception raised while a tuple is
\* applied) leaves exactly one call scheduled.
C12_OnePollArmed ==
    /\ [](mode = "gui" =>
            afterPending + (IF PollRunning THEN 1 ELSE 0) = 1)
    /\ [][PollRunning /\ ~PollRunning' /\ mode' = "gui" => afterPending' = 1]_vars

\* a terminal tuple was taken from the queue and dropped by an exception
\* before anything was applied, and the next call is scheduled all the same
C12_Witness ==
    /\ mode = "gui" /\ uiPc = "idle" /\ afterPending = 1
    /\ \E i \in 1..Len(enq) :
          /\ Terminal(enq[i])
          /\ \A j \in 1..Len(applied) : applied[j] # enq[i]
          /\ \A j \in 1..Len(msg_queue) : msg_queue[j] # enq[i]

\* ------------------------------------------------------------------ C13
\* the process ran headless and has exited
CliExited == mode = "exited" /\ nRuns = 1 /\ runs[1].caller = "cli"

\* C13: started with no argument, or with an argument list that holds
\* --gui anywhere, the program opens the window and starts no run; started
\* with any other list it runs the pipeline headless on the first argument,
\* and then exits with code 0 when the pipeline succeeded and with code 1
\* when it failed, in validation or later.  (No argument list is both empty
\* and without the window selected, so the usage exit never happens.)
C13_ModeAndExitCode ==
    /\ [][\A a \in Argvs : main(a) =>
            IF a = <<>> \/ \E i \in 1..Len(a) : a[i] = GuiFlag
            THEN mode' = "gui" /\ nRuns' = 0 /\ exitCode' = -1
            ELSE /\ mode' = "cli"
                 /\ runs'[1].caller = "cli"
                 /\ runs'[1].arg = a[1]]_vars
    /\ [](CliExited =>
            /\ runs[1].pc = "finished"
            /\ exitCode = IF runs[1].exc = "none" THEN 0 ELSE 1)
    /\ [](mode = "cli" => exitCode = -1)

\* a headless run failed after validation, in recognition, and the process
\* exited with code 1
C13_Witness ==
    /\ CliExited
    /\ runs[1].exc = "RecognitionError"
    /\ exitCode = 1

\* ------------------------------------------------------------------ C14
\* run r has returned the transcript path
Succeeded(r) ==
    /\ Followed(r)
    /\ runs[r].pc \in {"returned", "finished"}
    /\ runs[r].exc = "none"

\* the transcript path the claim gives for a normalized source path, for
\* the video files on disk: the source's directory ("." for a bare file
\* name), then the base name with its last extension replaced by .txt
ExpectedPath(p) ==
    CASE p = <<"/", "d", "/", "v", ".mp4">> -> <<"/", "d", "/", "v", ".txt">>
      [] p = <<"v", ".MOV">> -> <<".", "/", "v", ".txt">>
      [] OTHER -> <<>>

\* the transcript the claim gives for a recognition result: "  hello world  "
\* gives "hello world"; blank text with segments "a " and " b" gives "a\nb"
ExpectedText(res) ==
    IF res.segments = <<>>
    THEN <<"hello", "SP", "world">>
    ELSE <<"a", "NL", "b">>

ExtractionFailed(r) ==
    /\ Followed(r)
    /\ Has(r, "call extract_audio")
    /\ ~Has(r, "recognizing")
    /\ runs[r].pc \in {"finally", "raised", "finished"}

\* C15: a run whose call of extract_audio failed, for whatever reason, ends
\* with the one extraction failure (the RuntimeError of line 77), has called
\* neither load_model nor transcribe_audio, has written no transcript, and
\* its temporary file is gone.
C15_ExtractionFailureWrapped ==
    \A r \in RunIds : ExtractionFailed(r) =>
        /\ ~Has(r, "call load_model")
        /\ ~Has(r, "call transcribe_audio")
        /\ ~Has(r, "write")
        /\ Terminated(r) =>
              /\ runs[r].exc = "RuntimeError_ffmpeg"
              /\ r \notin tmpfiles

\* ------------------------------------------------------------------ C16
\* run r exists: it was started and its record is still kept
Active(r) == runs[r].pc \notin {"unused", "forgotten", "killed"}

\* the stage of the pipeline run r is in, as its rank in the order
\* Validating, ExtractingAudio, Recognizing, Persisting, Done, Failed
StageRank(r) ==
    IF runs[r].exc # "none" THEN 6
    ELSE CASE runs[r].pc = "validate" -> 1
           [] runs[r].pc \in {"alloc", "status_extract", "extract"} -> 2
           [] runs[r].pc \in {"status_recognize", "load", "recognize"} -> 3
           [] runs[r].pc = "write" -> 4
           [] OTHER -> 5

\* the status events of run r as the texts passed to the hook
EmittedTexts(r) ==
    [i \in 1..Len(Emitted(r)) |-> Msg(Emitted(r)[i].ev, Emitted(r)[i].path)]

\* C16: in every run the pipeline's stage never goes back; the status events
\* emitted so far, and the texts the hook has received, are at every moment
\* a prefix of "extracting audio", "recognizing", "done", "saved to <path>";
\* and once the run has failed no further status event is emitted.
C16_ForwardOnly ==
    /\ [](\A r \in RunIds : Active(r) =>
            /\ IsPrefix(EmittedTexts(r), SuccessEvents(r))
            /\ HookReceived(r) = EmittedTexts(r))
    /\ [][\A r \in RunIds : Active(r) /\ Active(r)' =>
            /\ StageRank(r)' >= StageRank(r)
            /\ IsPrefix(Emitted(r), Emitted(r)')
            /\ runs[r].exc # "none" => Emitted(r)' = Emitted(r)]_vars

\* a run failed in recognition after two status events, and has terminated
\* with just those two
C16_Witness ==
    \E r \in RunIds :
        /\ Active(r)
        /\ runs[r].pc = "raised"
        /\ runs[r].exc = "RecognitionError"
        /\ Len(Emitted(r)) = 2

\* ------------------------------------------------------------------ C17
\* C17: validation fails with the failure of the first check, in the order
\* empty path, missing file, unsupported extension, that the path does not
\* pass, the path being taken after trimming surrounding blanks and quote
\* characters: a path of blanks or quote characters only fails as an empty
\* path and not as a missing file; a path that names no file fails as a
\* missing file whatever its extension; a file with an unsupported
\* extension fails as such.
C17_ValidationOrder ==
    \A r \in RunIds :
        Validated(r) =>
            LET p == normalize_path(runs[r].arg)
            IN  /\ p = <<>> => runs[r].exc = "ValueError_empty"
                /\ (p # <<>> /\ p \notin Files) =>
                      runs[r].exc = "FileNotFoundError"
                /\ (p \in Files /\ Lower(splitext_ext(p)) \notin SUPPORTED_EXTS) =>
                      runs[r].exc = "ValueError_ext"

\* ------------------------------------------------------------------ C18
\* C18: the path and the model name a worker passes to the pipeline are the
\* contents of the path entry (blanks around it trimmed) and of the model
\* entry at the moment of the start click; edits of either entry while the
\* run is in flight change neither the file processed, nor the model
\* loaded, nor the transcript path.
C18_RequestSnapshot ==
    /\ [][(mode = "gui" /\ nRuns' = nRuns + 1) =>
            /\ runs'[nRuns'].caller = "gui"
            /\ runs'[nRuns'].arg = StripChars(path_var, Whitespace)
            /\ runs'[nRuns'].model_arg = model_var]_vars
    /\ [][\A r \in RunIds : (Followed(r) /\ Followed(r)') =>
            /\ runs'[r].arg = runs[r].arg
            /\ runs'[r].model_arg = runs[r].model_arg]_vars
    /\ [](\A r \in RunIds : Followed(r) =>
            /\ (Validated(r) /\ runs[r].exc \notin ValidationErrors) =>
                  runs[r].video_path = normalize_path(runs[r].arg)
            /\ Has(r, "tmp_create") =>
                  runs[r].txt_path = TxtPath(normalize_path(runs[r].arg))
            /\ Has(r, "call load_model") =>
                  runs[r].model_name =
                      IF runs[r].model_arg # "" THEN runs[r].model_arg
                      ELSE IF env # "" THEN env ELSE "base"
            /\ Has(r, "write") =>
                  \E f \in outfiles :
                      f.path = TxtPath(normalize_path(runs[r].arg)))

\* a worker has loaded its model and is still running while both entries
\* hold something other than what was read at the click
C18_Witness ==
    \E r \in RunIds :
        /\ Followed(r) /\ WorkerAlive(r)
        /\ Has(r, "call load_model")
        /\ model_var # runs[r].model_arg
        /\ StripChars(path_var, Whitespace) # runs[r].arg

\* ------------------------------------------------------------------ C19
\* the UI thread has applied the terminal tuple of run r
TerminalApplied(r) == Followed(r) /\ TerminalsIn(AppliedOf(r)) # {}

\* C19 as stated: in every state in which the UI thread has applied the
\* terminal tuple of a run, the temporary file of that run does not exist.
C19_TempGoneWhenApplied ==
    \A r \in RunIds : TerminalApplied(r) => r \notin tmpfiles

\* C19, amended: the worker puts its terminal tuple on the queue only after
\* the finally block of the pipeline has run, so once a run's terminal tuple
\* is on the queue or applied, the run's temporary file does not exist,
\* unless the removal itself raised, and then the tuple is the error tuple
\* carrying that failure.
C19_TempGoneWhenAppliedUnlessRemoveFailed ==
    \A r \in RunIds :
        (Followed(r) /\ TerminalsIn(EnqOf(r)) # {}) =>
            /\ r \in tmpfiles <=> runs[r].exc = "OSError_remove"
            /\ (Has(r, "tmp_create") /\ runs[r].exc # "OSError_remove") =>
                  Has(r, "tmp_remove")
            /\ runs[r].exc = "OSError_remove" =>
                  \A i \in TerminalsIn(EnqOf(r)) :
                      /\ EnqOf(r)[i].kind = "error"
                      /\ EnqOf(r)[i].payload = Msg("OSError_remove", <<>>)

\* the UI thread has applied the ("done") tuple of a run, the controls are
\* enabled again, and the run's temporary file was removed before
C19_Witness ==
    \E r \in RunIds :
        /\ TerminalApplied(r)
        /\ \E i \in TerminalsIn(AppliedOf(r)) : AppliedOf(r)[i].kind = "done"
        /\ Has(r, "tmp_remove")
        /\ r \notin tmpfiles
        /\ ~progress /\ start_btn = "normal" /\ browse_btn = "normal"

\* ------------------------------------------------------------------ C20
\* the latest run started from the window is in flight: its terminal tuple
\* has not been applied yet
InFlight == nRuns > 0 /\ Followed(nRuns) /\ TerminalsIn(AppliedOf(nRuns)) = {}

\* C20: over consecutive runs in one window, a worker is launched only when
\* the queue is empty and no earlier worker is alive; every tuple on the
\* queue and every live worker belongs to the latest run, so no tuple of an
\* earlier run is applied once a later run has started; and the progress
\* bar runs and the start and browse buttons are disabled in exactly the
\* states in which the latest run's terminal tuple has not been applied.
C20_RunsIsolated ==
    /\ [][(mode = "gui" /\ nRuns' = nRuns + 1) =>
            /\ msg_queue = <<>>
            /\ \A r \in RunIds : ~WorkerAlive(r)]_vars
    /\ [](mode = "gui" =>
            /\ \A i \in 1..Len(msg_queue) : msg_queue[i].run = nRuns
            /\ \A r \in RunIds : WorkerAlive(r) => r = nRuns
            /\ progress <=> InFlight
            /\ start_btn = "disabled" <=> InFlight
            /\ browse_btn = "disabled" <=> InFlight)

\* a second run is in flight in the same window and a status tuple of it
\* has been applied
C20_Witness ==
    /\ mode = "gui" /\ nRuns = 2
    /\ InFlight
    /\ AppliedOf(2) # <<>>
    /\ progress /\ start_btn = "disabled"

=============================================================================
